---- MODULE Spec2Model ----
(***************************************************************************)
(* Model of crypto_prices.py: the fetch / transient cache / on-disk        *)
(* fallback protocol for current prices and price history, the sparkline   *)
(* renderer, the graph table and main()'s fetch-display-sleep loop; and of *)
(* config_manager.py: ConfigManager.load and ConfigManager.set.            *)
(*                                                                         *)
(* Time is a clock of whole ticks; TicksPerDay ticks are timedelta(days=1).*)
(* A Python value that may be None is carried as None or Some(v).          *)
(***************************************************************************)
EXTENDS Integers, Sequences, FiniteSets, TLC

\* ---------------------------------------------------------------- bounds
TicksPerDay == 2     \* clock resolution: ticks in timedelta(days=1)
MaxNow      == 2     \* the clock is followed up to this tick
MaxCoins    == 2     \* longest configured coin list
MaxLen      == 4     \* longest series handed to create_sparkline
MaxVal      == 3     \* sparkline inputs take values 0..MaxVal
MaxWidth    == 3     \* sparkline widths are 1..MaxWidth
MaxSets     == 2     \* set() calls made on one ConfigManager

\* at most one day passes in one sleep and between two runs
MaxSleep == TicksPerDay

\* the prices the API reports
Prices == {1, 2}

\* ------------------------------------------------------- program constants
AllCoins == <<"bitcoin", "ethereum", "binancecoin", "solana", "monero">>
\* A glyph is one unit of output: the flat-line literal that is repeated
\* width times, or the palette entry picked for one sample. Each is named by
\* the code point it stands for; the bytes of the literals are not modelled.
FlatGlyph == "U2500"
\* the palette of create_sparkline, lowest block to full block
blocks == <<"U2581", "U2582", "U2583", "U2584", "U2585", "U2586", "U2587", "U2588">>
Levels == 7          \* int(... * 7): highest index into the 8-glyph palette
DefaultExpiration == 300   \* DEFAULT_CONFIG['cache']['expiration'], seconds
MinExpiration == 30        \* _validate_numeric_range('cache.expiration', 30, 86400)
MaxExpiration == 86400     \* one day in seconds

VARIABLES
  now,                    \* datetime.now(), in ticks
  config,                 \* the global config of the running process
  cache_installed,        \* requests_cache.install_cache() was called in this run
  http_cache,             \* requests_cache entry of the markets request
  fallback_file,          \* ~/.crypto_prices_fallback.json
  history_fallback_file,  \* ~/.crypto_prices_history_fallback.json
  pc,                     \* position of main()
  prices_data,            \* main(): prices_data
  from_cache,             \* main(): from_cache
  history_data,           \* main(): history_data
  exit_status,            \* process exit status, None while running
  screen,                 \* what display_crypto_prices printed last
  cur_call,               \* record of the last fetch_crypto_prices call
  hist_call,              \* record of the last fetch_price_history call
  saved_prices,           \* what save_fallback_data last stored, and when
  saved_history,          \* what save_history_fallback_data last stored, and when
  live_entry,             \* the last snapshot a live request returned, and its TTL
  received,               \* when the payload of the current-price record left the API
  captured_for,           \* the request whose reply is the payload of that record
  series,                 \* create_sparkline: prices argument
  width,                  \* create_sparkline: width argument
  sparkline,              \* create_sparkline: result
  table_row,              \* display_price_graphs: the row added for a coin
  config_files,           \* the three candidate configuration files
  manager,                \* a ConfigManager: config_path, config, loaded
  manager_call            \* record of the last ConfigManager call

vars == <<now, config, cache_installed, http_cache, fallback_file,
          history_fallback_file, pc, prices_data, from_cache, history_data,
          exit_status, screen, cur_call, hist_call, saved_prices,
          saved_history, live_entry, received, captured_for, series, width,
          sparkline, table_row, config_files, manager, manager_call>>

\* the variables of the ConfigManager, and those of the program
manager_vars == <<config_files, manager, manager_call>>

program_vars == <<now, config, cache_installed, http_cache, fallback_file,
                  history_fallback_file, pc, prices_data, from_cache,
                  history_data, exit_status, screen, cur_call, hist_call,
                  saved_prices, saved_history, live_entry, received,
                  captured_for, series, width, sparkline, table_row>>

\* ------------------------------------------------------------ Python values
Range(f) == {f[x] : x \in DOMAIN f}

None == [tag |-> "None"]
Some(v) == [tag |-> "val", val |-> v]

\* bool(x) of an optional list or dict: None, [] and {} are falsy
Truthy(x) == x.tag = "val" /\ DOMAIN x.val # {}

\* ------------------------------------------------------------ serialisation
\* datetime.isoformat(): "<date>T<time of day>"
isoformat(t) == [date |-> t \div TicksPerDay, time |-> t % TicksPerDay]

\* datetime.fromisoformat()
fromisoformat(s) == s.date * TicksPerDay + s.time

\* json.dump of a list of coin objects: the members of each object in order
RECURSIVE json_dump_list(_)
json_dump_list(data) ==
  IF data = <<>> THEN <<>>
  ELSE <<Head(data).id, Head(data).current_price>> \o json_dump_list(Tail(data))

\* json.load that loses the last object of the list
json_load_list_short(text) ==
  [i \in 1..((Len(text) \div 2) - 1) |->
     [id |-> text[2 * i - 1], current_price |-> text[2 * i]]]

\* json.load of that text
json_load_list(text) ==
  [i \in 1..(Len(text) \div 2) |->
     [id |-> text[2 * i - 1], current_price |-> text[2 * i]]]

\* json.dump of a dict coin -> prices: its items, in the order of the coin list
RECURSIVE json_dump_dict(_, _)
json_dump_dict(data, order) ==
  IF order = <<>> THEN <<>>
  ELSE (IF Head(order) \in DOMAIN data
          THEN << <<Head(order), data[Head(order)]>> >>
          ELSE <<>>) \o json_dump_dict(data, Tail(order))

\* json.load of that text
json_load_dict(text) ==
  [c \in {text[i][1] : i \in 1..Len(text)} |->
     text[CHOOSE i \in 1..Len(text) : text[i][1] = c /\
            \A j \in 1..Len(text) : text[j][1] = c => j <= i][2]]

\* ------------------------------------------------------------ fallback store
Missing == [st |-> "missing"]
Malformed == [st |-> "malformed"]
FileRecord(stamp, text) == [st |-> "json", timestamp |-> stamp, data |-> text]

\* timedelta(days=d), in ticks
timedelta_days(d) == d * TicksPerDay

\* the age test with <= for <: a record of exactly one day still counts
is_recent_inclusive(cache_time, t) == t - cache_time <= timedelta_days(1)

\* the age test of both readers: datetime.now() - cache_time < timedelta(days=1)
is_recent(cache_time, t) == t - cache_time < timedelta_days(1)

\* what open(file, 'w') and json.dump can do to the file:
\*   "ok"         the record is written
\*   "open_fails" open() raises, the file keeps its content
\*   "dump_fails" open() truncated the file and the write raised
WriteOutcomes == {"ok", "open_fails", "dump_fails"}

written_file(file, stamp, text, wr) ==
  CASE wr = "ok" -> FileRecord(stamp, text)
    [] wr = "open_fails" -> file
    [] wr = "dump_fails" -> Malformed

\* the record the store holds after a write: the payload handed to json.dump
\* and the time of the write, or None once a failed write has destroyed it
stored_after(stored, data, t, wr) ==
  CASE wr = "ok" -> Some([data |-> data, at |-> t])
    [] wr = "open_fails" -> stored
    [] wr = "dump_fails" -> None

\* save_fallback_data without its except clause: a failed write raises
save_fallback_data_raising(file, data, t, wr) ==
  [raised |-> wr # "ok",
   file |-> written_file(file, isoformat(t), json_dump_list(data), wr)]

\* save_fallback_data: every exception is caught and logged
save_fallback_data(file, data, t, wr) ==
  [raised |-> FALSE,
   file |-> written_file(file, isoformat(t), json_dump_list(data), wr)]

\* get_fallback_data: the payload, or None
get_fallback_data(file, t) ==
  IF file.st = "missing" THEN None
  ELSE IF file.st = "malformed" THEN None
  ELSE IF is_recent(fromisoformat(file.timestamp), t)
         THEN Some(json_load_list(file.data))
         ELSE None

\* save_history_fallback_data
save_history_fallback_data(file, data, order, t, wr) ==
  [raised |-> FALSE,
   file |-> written_file(file, isoformat(t), json_dump_dict(data, order), wr)]

\* get_history_fallback_data
get_history_fallback_data(file, t) ==
  IF file.st = "missing" THEN None
  ELSE IF file.st = "malformed" THEN None
  ELSE IF is_recent(fromisoformat(file.timestamp), t)
         THEN Some(json_load_dict(file.data))
         ELSE None

\* ------------------------------------------------------------ HTTP layer
\* What the remote API can answer to one GET:
\*   [status |-> "error"]   transport error, timeout or non-2xx status
\*   [status |-> "ok", json |-> FALSE]           200 with an unparsable body
\*   [status |-> "ok", json |-> TRUE, data |-> d]  200 with JSON d
HttpError == [status |-> "error"]
BadBody == [status |-> "ok", json |-> FALSE]
JsonBody(d) == [status |-> "ok", json |-> TRUE, data |-> d]

NoEntry == [present |-> FALSE]
CacheEntry(reply, created, expires) ==
  [present |-> TRUE, reply |-> reply, created |-> created, expires |-> expires]

\* timedelta(seconds=s), in ticks: a positive duration lasts at least one tick
timedelta_seconds(s) == (s * TicksPerDay + MaxExpiration - 1) \div MaxExpiration

\* requests.get under requests_cache: a stored, unexpired 200 reply is served
\* without a network request; a fresh 200 reply is stored for expire_after.
requests_get(entry, installed, expire_after, net, t) ==
  IF installed /\ entry.present /\ t < entry.expires
    THEN [reply |-> entry.reply, from_cache |-> TRUE, network |-> FALSE,
          created |-> entry.created, entry |-> entry]
    ELSE [reply |-> net, from_cache |-> FALSE, network |-> TRUE, created |-> t,
          entry |-> IF installed /\ net.status = "ok"
                      THEN CacheEntry(net, t, t + expire_after)
                      ELSE IF installed THEN NoEntry ELSE entry]

\* ------------------------------------------------------------ fetch_crypto_prices
Return(d, fc) == [kind |-> "return", data |-> d, from_cache |-> fc]
\* an empty result handed back instead of sys.exit
Exit_returning(code) == [kind |-> "return", data |-> <<>>, from_cache |-> FALSE]

Exit(code) == [kind |-> "exit", code |-> code]
Raise(exc) == [kind |-> "raise", exc |-> exc]

\* the except branch without the use_fallback test
handle_fetch_error_unconditional(cfg, file, t) ==
  LET fallback_data == get_fallback_data(file, t) IN
  IF Truthy(fallback_data)
    THEN [result |-> Return(fallback_data.val, FALSE), file |-> file,
          read |-> TRUE, readval |-> fallback_data, source |-> "fallback"]
    ELSE [result |-> Exit(1), file |-> file, read |-> TRUE,
          readval |-> fallback_data, source |-> "none"]

\* the except branch: fallback if enabled and truthy, else sys.exit(1)
handle_fetch_error(cfg, file, t) ==
  IF cfg.use_fallback
    THEN LET fallback_data == get_fallback_data(file, t) IN
         IF Truthy(fallback_data)
           THEN [result |-> Return(fallback_data.val, FALSE), file |-> file,
                 read |-> TRUE, readval |-> fallback_data, source |-> "fallback"]
           ELSE [result |-> Exit(1), file |-> file, read |-> TRUE,
                 readval |-> fallback_data, source |-> "none"]
    ELSE [result |-> Exit(1), file |-> file, read |-> FALSE, readval |-> None,
          source |-> "none"]

\* fetch_crypto_prices, given the reply of requests.get
fetch_crypto_prices(cfg, got, file, t, wr) ==
  IF got.reply.status = "ok" /\ got.reply.json
    THEN LET saved == save_fallback_data(file, got.reply.data, t, wr) IN
         [result |-> IF saved.raised THEN Raise("OSError")
                     ELSE Return(got.reply.data, got.from_cache),
          file |-> saved.file, read |-> FALSE, readval |-> None,
          source |-> IF got.from_cache THEN "cache" ELSE "live"]
    ELSE handle_fetch_error(cfg, file, t)

\* display_crypto_prices: the status suffix of the table title and its rows
display_crypto_prices(data, fc) ==
  [cache_status |-> IF fc THEN " (cached)" ELSE "",
   rows |-> [i \in 1..Len(data) |-> data[i].id]]

\* ------------------------------------------------------------ fetch_price_history
\* JSON body of a market_chart reply: with or without the 'prices' key
Chart(prices) == [has_prices |-> TRUE, prices |-> prices]
NoPricesKey == [has_prices |-> FALSE]

HReturn(v) == [kind |-> "return", value |-> v]

\* the for loop over the coins: a reply that raises RequestException or
\* JSONDecodeError skips the coin; coin_data['prices'] on a body without
\* that key raises KeyError, which no except clause of the loop names
RECURSIVE history_loop(_, _, _, _)
history_loop(coins, replies, history, attempted) ==
  IF coins = <<>>
    THEN [raised |-> FALSE, history_data |-> history, attempted |-> attempted]
    ELSE LET coin == Head(coins)
             r == replies[coin]
         IN  IF r.status = "ok" /\ r.json
               THEN IF r.data.has_prices
                      THEN history_loop(Tail(coins), replies,
                             [c \in DOMAIN history \cup {coin} |->
                                IF c = coin THEN r.data.prices ELSE history[c]],
                             Append(attempted, coin))
                      ELSE [raised |-> TRUE, history_data |-> history,
                            attempted |-> Append(attempted, coin)]
               ELSE history_loop(Tail(coins), replies, history,
                                 Append(attempted, coin))

\* saving whatever the loop produced, an empty dict included
should_save_history_always(history) == TRUE

\* "if history_data:" before save_history_fallback_data
should_save_history(history) == DOMAIN history # {}

\* fetch_price_history, given the reply to each coin's request
fetch_price_history(cfg, replies, file, t, wr) ==
  LET loop == history_loop(cfg.cryptocurrencies, replies, <<>>, <<>>)
      history == loop.history_data
      saved == IF should_save_history(history)
                 THEN save_history_fallback_data(file, history,
                                                 cfg.cryptocurrencies, t, wr)
                 ELSE [raised |-> FALSE, file |-> file]
  IN  IF loop.raised
        THEN [result |-> Raise("KeyError"), file |-> file, read |-> FALSE,
              history_data |-> history, attempted |-> loop.attempted,
              wrote |-> FALSE]
      ELSE IF saved.raised
        THEN [result |-> Raise("OSError"), file |-> saved.file, read |-> FALSE,
              history_data |-> history, attempted |-> loop.attempted,
              wrote |-> TRUE]
      ELSE IF DOMAIN history = {} /\ cfg.use_fallback
        THEN [result |-> HReturn(get_history_fallback_data(saved.file, t)),
              file |-> saved.file, read |-> TRUE, history_data |-> history,
              attempted |-> loop.attempted,
              wrote |-> should_save_history(history)]
      ELSE [result |-> HReturn(Some(history)), file |-> saved.file,
            read |-> FALSE, history_data |-> history,
            attempted |-> loop.attempted,
            wrote |-> should_save_history(history)]

\* ------------------------------------------------------------ create_sparkline
Max(a, b) == IF a >= b THEN a ELSE b

SeqMin(values) == CHOOSE m \in Range(values) : \A v \in Range(values) : m <= v

SeqMax(values) == CHOOSE m \in Range(values) : \A v \in Range(values) : m >= v

\* "x" * n
Repeat(x, n) == [i \in 1..n |-> x]

\* values[::step]
Strided(values, step) ==
  [k \in 1..((Len(values) + step - 1) \div step) |-> values[(k - 1) * step + 1]]

\* the first width values, whatever the step
sampled_values_head(values, step, w) ==
  SubSeq(values, 1, IF Len(values) < w THEN Len(values) ELSE w)

\* values[::step][:width]
sampled_values(values, step, w) ==
  LET strided == Strided(values, step)
  IN  SubSeq(strided, 1, IF Len(strided) < w THEN Len(strided) ELSE w)

\* no padding
padded_values_unpadded(sampled, w) == sampled

\* sampled_values + [sampled_values[-1]] * (width - len(sampled_values))
padded_values(sampled, w) ==
  sampled \o Repeat(sampled[Len(sampled)], w - Len(sampled))

\* the scaled value rounded to the nearest index instead of truncated
bucket_rounded(val, min_val, range_val) ==
  ((val - min_val) * Levels * 2 + range_val) \div (2 * range_val)

\* int(((val - min_val) / range_val) * 7): on the integers of the model the
\* float quotient, product and truncation equal the exact floor
bucket(val, min_val, range_val) == ((val - min_val) * Levels) \div range_val

\* the trend taken from the last two values
trend_color_adjacent(values) ==
  IF values[Len(values)] > values[Len(values) - 1] THEN "green"
  ELSE IF values[Len(values)] < values[Len(values) - 1] THEN "red"
  ELSE "none"

\* the colour wrapped around the glyphs
trend_color(values) ==
  IF values[Len(values)] > values[1] THEN "green"
  ELSE IF values[Len(values)] < values[1] THEN "red"
  ELSE "none"

\* the flat literal once, not width times
flat_line_single(w) == [glyphs |-> <<FlatGlyph>>, color |-> "none"]

\* the flat literal * width, returned without colour escapes
flat_line(w) == [glyphs |-> Repeat(FlatGlyph, w), color |-> "none"]

\* create_sparkline(prices, width): the glyphs and the colour around them
create_sparkline(prices, w) ==
  IF Len(prices) < 2
    THEN flat_line(w)
    ELSE LET values == [i \in 1..Len(prices) |-> prices[i][2]]
             min_val == SeqMin(values)
             max_val == SeqMax(values)
         IN  IF min_val = max_val
               THEN flat_line(w)
               ELSE LET step == Max(1, Len(values) \div w)
                        padded == padded_values(sampled_values(values, step, w), w)
                    IN  [glyphs |-> [i \in 1..Len(padded) |->
                                       blocks[bucket(padded[i], min_val, max_val - min_val) + 1]],
                         color |-> trend_color(values)]

\* ------------------------------------------------------------ display_price_graphs
\* ansi_escape.sub('', sparkline): the glyphs without the colour escapes
ansi_escape_sub(spark) == spark.glyphs

\* sub in s, for strings of glyphs
Contains(sub, s) ==
  \E k \in 0..(Len(s) - Len(sub)) : \A i \in 1..Len(sub) : s[k + i] = sub[i]

\* Text(clean_sparkline, style): styled by the trend only if the whole
\* palette occurs in the sparkline, unstyled otherwise
sparkline_text(history, w) ==
  LET clean_sparkline == ansi_escape_sub(create_sparkline(history, w))
      trend == history[Len(history)][2] - history[1][2]
  IN  IF Contains(blocks, clean_sparkline)
        THEN [text |-> clean_sparkline,
              style |-> IF trend > 0 THEN "green"
                        ELSE IF trend < 0 THEN "red" ELSE "none"]
        ELSE [text |-> clean_sparkline, style |-> "none"]

\* the 24h change cell: comparing None with 0 raises TypeError
change_text(change_24h) ==
  IF change_24h = None THEN Raise("TypeError")
  ELSE [kind |-> "text", text |-> change_24h.val,
        style |-> IF change_24h.val > 0 THEN "green"
                  ELSE IF change_24h.val < 0 THEN "red" ELSE "none"]

\* price_change_percentage_24h as the API reports it: null or a number
Changes == {None, Some(-1), Some(0), Some(1)}

\* ------------------------------------------------------------ inputs
CoinLists == {SubSeq(AllCoins, 1, n) : n \in 1..MaxCoins}

\* _validate_numeric_range: a value out of [min_val, max_val] is replaced by
\* the default
validate_numeric_range(value, min_val, max_val, default) ==
  IF value < min_val \/ value > max_val THEN default ELSE value

\* ConfigManager.load for a configuration file: the file's values over the
\* defaults, then validated; file_expiration keeps what the file said
load_config(file) ==
  [cryptocurrencies |-> file.cryptocurrencies,
   use_fallback |-> file.use_fallback,
   show_graphs |-> file.show_graphs,
   refresh_rate |-> file.refresh_rate,
   currency |-> file.currency,
   expiration |-> validate_numeric_range(file.expiration, MinExpiration,
                                         MaxExpiration, DefaultExpiration),
   file_expiration |-> file.expiration]

\* currency.base: the default and one other currency code
DefaultCurrency == "usd"

Currencies == {DefaultCurrency, "eur"}

\* cache.expiration as written in a configuration file, in seconds
FileExpirations == {0, DefaultExpiration, MaxExpiration}

\* configuration files of runs that show no graphs (one coin list, every
\* cache expiration) and of runs that show graphs (every coin list);
\* refresh_rate is 0 or a positive number of seconds
PriceConfigFiles ==
  [cryptocurrencies : {SubSeq(AllCoins, 1, MaxCoins)}, use_fallback : BOOLEAN,
   show_graphs : {FALSE}, refresh_rate : {0, 1}, currency : {DefaultCurrency},
   expiration : FileExpirations]

GraphConfigFiles ==
  [cryptocurrencies : CoinLists, use_fallback : BOOLEAN,
   show_graphs : {TRUE}, refresh_rate : {1}, currency : {DefaultCurrency},
   expiration : {DefaultExpiration}]

\* configuration files of runs without graphs and without the cache, for
\* every coin list and every base currency
ParamConfigFiles ==
  [cryptocurrencies : CoinLists, use_fallback : BOOLEAN,
   show_graphs : {FALSE}, refresh_rate : {1}, currency : Currencies,
   expiration : {DefaultExpiration}]

PriceConfigs == {load_config(file) : file \in PriceConfigFiles}

ParamConfigs == {load_config(file) : file \in ParamConfigFiles}

GraphConfigs == {load_config(file) : file \in GraphConfigFiles}

\* /coins/markets answers with the coins it knows, in market-cap order: all
\* the requested ids, or none of them
Snapshot(ids, p) == [i \in 1..Len(ids) |-> [id |-> ids[i], current_price |-> p]]

MarketReplies(coins) ==
  {HttpError, BadBody} \cup
  {JsonBody(Snapshot(SubSeq(coins, 1, n), p)) : n \in {0, Len(coins)}, p \in Prices}

\* /coins/{id}/market_chart: a series of [timestampMillis, price] pairs
PriceSeries(coin) ==
  LET k == CHOOSE i \in 1..Len(AllCoins) : AllCoins[i] = coin
  IN  << <<0, k>>, <<1, 1>>, <<2, 2>> >>

ChartReplies(coin) ==
  {HttpError, BadBody, JsonBody(NoPricesKey), JsonBody(Chart(PriceSeries(coin)))}

Idle == [op |-> "none"]

\* the last snapshot a live request returned, for the coin list key, kept
\* until the TTL configured at that time has passed; it is followed in the
\* runs that start with NoLive and not in those that start with Unobserved;
\* captured_for is followed likewise in the runs that start with None
NoLive == [st |-> "none"]
Unobserved == [st |-> "unobserved"]
LiveEntry(key, data, expires) ==
  [st |-> "fresh", key |-> key, data |-> data, expires |-> expires]

aged(entry, t) ==
  IF entry.st = "fresh" /\ t >= entry.expires THEN NoLive ELSE entry

\* when the payload in the current-price file was received from the API,
\* after a write of a payload received at time rcv
received_after(rcv_before, rcv, wr) ==
  CASE wr = "ok" -> Some(rcv)
    [] wr = "open_fails" -> rcv_before
    [] wr = "dump_fails" -> None

\* the parameters of the /coins/markets request that tell one reply from
\* another: 'ids' and 'vs_currency'
request_params(cfg) ==
  [ids |-> cfg.cryptocurrencies, vs_currency |-> cfg.currency]

\* ------------------------------------------------------------ ConfigManager
\* The values a YAML document or a caller of set() can put into the
\* configuration, by Python type. A dict holds a function from its keys to
\* values; the configuration itself is such a function from section names.
PyNone == [t |-> "none"]
PyBool(b) == [t |-> "bool", b |-> b]
PyInt(n) == [t |-> "int", n |-> n]
PyNaN == [t |-> "nan"]
PyStr(s) == [t |-> "str", s |-> s]
PyList(l) == [t |-> "list", l |-> l]
PyDict(d) == [t |-> "dict", d |-> d]

\* bool(x)
py_truthy(x) ==
  CASE x.t = "none" -> FALSE
    [] x.t = "bool" -> x.b
    [] x.t = "int" -> x.n # 0
    [] x.t = "nan" -> TRUE
    [] x.t = "str" -> x.s # ""
    [] x.t = "list" -> x.l # <<>>
    [] x.t = "dict" -> DOMAIN x.d # {}

\* a == b: True equals 1 and False equals 0, NaN equals nothing
py_eq(a, b) ==
  CASE a.t = "nan" \/ b.t = "nan" -> FALSE
    [] a.t = "bool" /\ b.t = "int" -> b.n = (IF a.b THEN 1 ELSE 0)
    [] a.t = "int" /\ b.t = "bool" -> a.n = (IF b.b THEN 1 ELSE 0)
    [] OTHER -> a = b

\* key in x, for a string key: "yes", "no" or the TypeError of a value that
\* is not a container. No string of the model contains an option name, and
\* no list holds one.
py_in(key, x) ==
  CASE x.t = "dict" -> IF key \in DOMAIN x.d THEN "yes" ELSE "no"
    [] x.t \in {"str", "list"} -> "no"
    [] OTHER -> "TypeError"

\* the numerals among the strings of the model
Numerals == {"45"}

\* float(value): a number, NaN, or the ValueError / TypeError that
\* _validate_numeric_range catches
py_float(value) ==
  CASE value.t = "int" -> [kind |-> "float", val |-> value.n]
    [] value.t = "bool" -> [kind |-> "float", val |-> IF value.b THEN 1 ELSE 0]
    [] value.t = "nan" -> [kind |-> "nan"]
    [] value.t = "str" /\ value.s \in Numerals -> [kind |-> "float", val |-> 45]
    [] value.t = "str" /\ value.s \notin Numerals -> Raise("ValueError")
    [] OTHER -> Raise("TypeError")

DEFAULT_CONFIG ==
  [cryptocurrencies |->
     PyList(<<"bitcoin", "ethereum", "binancecoin", "monero", "solana">>),
   display |-> PyDict([default_mode |-> PyStr("normal"),
                       show_graphs |-> PyBool(TRUE),
                       refresh_rate |-> PyInt(300),
                       price_decimals |-> PyInt(2),
                       percent_decimals |-> PyInt(2)]),
   cache |-> PyDict([enabled |-> PyBool(TRUE),
                     expiration |-> PyInt(DefaultExpiration),
                     backend |-> PyStr("sqlite"),
                     filename |-> PyStr(".crypto_cache")]),
   graph |-> PyDict([days |-> PyInt(7),
                     width |-> PyInt(40),
                     height |-> PyInt(10),
                     style |-> PyStr("unicode"),
                     color_scheme |-> PyStr("default")]),
   currency |-> PyDict([base |-> PyStr(DefaultCurrency),
                        symbol |-> PyStr("$"),
                        symbol_position |-> PyStr("prefix")]),
   api |-> PyDict([endpoint |-> PyStr("https://api.coingecko.com/api/v3"),
                   api_key |-> PyStr(""),
                   timeout |-> PyInt(10),
                   use_fallback |-> PyBool(TRUE)])]

\* VALIDATION_SCHEMA, in the order the loops of _validate_config visit it:
\* section, option, allowed values
VALIDATION_SCHEMA ==
  << <<"display", "default_mode",
       {PyStr("normal"), PyStr("quiet"), PyStr("verbose"), PyStr("graph")}>>,
     <<"display", "show_graphs", {PyBool(TRUE), PyBool(FALSE)}>>,
     <<"cache", "enabled", {PyBool(TRUE), PyBool(FALSE)}>>,
     <<"cache", "backend", {PyStr("sqlite"), PyStr("memory")}>>,
     <<"graph", "style", {PyStr("unicode"), PyStr("ascii")}>>,
     <<"graph", "color_scheme",
       {PyStr("default"), PyStr("monochrome"), PyStr("rainbow")}>>,
     <<"currency", "symbol_position", {PyStr("prefix"), PyStr("suffix")}>> >>

\* the _validate_numeric_range calls of _validate_config, in order: section,
\* option, min_val, max_val
NumericRanges ==
  << <<"display", "refresh_rate", 0, 3600>>,
     <<"display", "price_decimals", 0, 10>>,
     <<"display", "percent_decimals", 0, 10>>,
     <<"cache", "expiration", MinExpiration, MaxExpiration>>,
     <<"graph", "days", 1, 365>>,
     <<"graph", "width", 10, 200>>,
     <<"graph", "height", 1, 50>>,
     <<"api", "timeout", 1, 60>> >>

\* a step of a method: it went through with this configuration, or raised
\* with the configuration as it was at that point
Done(cfg) == [kind |-> "ok", config |-> cfg]
Raised(exc, cfg) == [kind |-> "raise", exc |-> exc, config |-> cfg]

\* d[key] = value on a dict
dict_set(d, key, value) ==
  [k \in DOMAIN d \cup {key} |-> IF k = key THEN value ELSE d[k]]

\* self.config[section][option] = DEFAULT_CONFIG[section][option]
reset_option(cfg, section, option) ==
  [cfg EXCEPT ![section] =
     PyDict(dict_set(cfg[section].d, option, DEFAULT_CONFIG[section].d[option]))]

\* _load_from_file: the document, or None when open or yaml.safe_load raises
load_from_file(file) == IF file.st = "yaml" THEN file.doc ELSE PyNone

\* _merge_config: loaded_config.items() needs a mapping; a dict section is
\* updated option by option, anything else replaces the section
merge_config(cfg, loaded_config) ==
  IF loaded_config.t # "dict" THEN Raised("AttributeError", cfg)
  ELSE Done([section \in DOMAIN cfg \cup DOMAIN loaded_config.d |->
               IF section \notin DOMAIN loaded_config.d THEN cfg[section]
               ELSE LET values == loaded_config.d[section]
                    IN  IF section \in DOMAIN cfg /\ values.t = "dict"
                           /\ cfg[section].t = "dict"
                          THEN PyDict([o \in DOMAIN cfg[section].d \cup DOMAIN values.d |->
                                         IF o \in DOMAIN values.d THEN values.d[o]
                                         ELSE cfg[section].d[o]])
                          ELSE values])

\* _validate_config, first loop: one option of VALIDATION_SCHEMA
validate_allowed(cfg, check) ==
  LET section == check[1]
      option == check[2]
      valid_values == check[3]
  IN  IF section \notin DOMAIN cfg THEN Done(cfg)
      ELSE LET has == py_in(option, cfg[section])
           IN  IF has = "TypeError" THEN Raised("TypeError", cfg)
               ELSE IF has = "no" THEN Done(cfg)
               ELSE IF \E v \in valid_values : py_eq(cfg[section].d[option], v)
                 THEN Done(cfg)
                 ELSE Done(reset_option(cfg, section, option))

\* _validate_numeric_range on the configuration: NaN passes both comparisons
validate_numeric_option(cfg, check) ==
  LET section == check[1]
      option == check[2]
  IN  IF section \notin DOMAIN cfg THEN Done(cfg)
      ELSE LET has == py_in(option, cfg[section])
           IN  IF has = "TypeError" THEN Raised("TypeError", cfg)
               ELSE IF has = "no" THEN Done(cfg)
               ELSE LET value == py_float(cfg[section].d[option])
                    IN  IF value.kind = "raise"
                          THEN Done(reset_option(cfg, section, option))
                        ELSE IF value.kind = "nan" THEN Done(cfg)
                        ELSE IF value.val < check[3] \/ value.val > check[4]
                          THEN Done(reset_option(cfg, section, option))
                        ELSE Done(cfg)

RECURSIVE validate_schema(_, _)
validate_schema(cfg, checks) ==
  IF checks = <<>> THEN Done(cfg)
  ELSE LET r == validate_allowed(cfg, Head(checks))
       IN  IF r.kind = "raise" THEN r ELSE validate_schema(r.config, Tail(checks))

RECURSIVE validate_ranges(_, _)
validate_ranges(cfg, checks) ==
  IF checks = <<>> THEN Done(cfg)
  ELSE LET r == validate_numeric_option(cfg, Head(checks))
       IN  IF r.kind = "raise" THEN r ELSE validate_ranges(r.config, Tail(checks))

\* the last test of _validate_config: an empty or non-list value is replaced
validate_cryptocurrencies(cfg) ==
  IF ~py_truthy(cfg.cryptocurrencies) \/ cfg.cryptocurrencies.t # "list"
    THEN [cfg EXCEPT !.cryptocurrencies = DEFAULT_CONFIG.cryptocurrencies]
    ELSE cfg

\* _validate_config
validate_config(cfg) ==
  LET allowed == validate_schema(cfg, VALIDATION_SCHEMA)
  IN  IF allowed.kind = "raise" THEN allowed
      ELSE LET ranged == validate_ranges(allowed.config, NumericRanges)
           IN  IF ranged.kind = "raise" THEN ranged
               ELSE Done(validate_cryptocurrencies(ranged.config))

\* a method returned
Returned == [kind |-> "return"]

\* ConfigManager(config_path)
ConfigManager(config_path) ==
  [config_path |-> config_path, config |-> DEFAULT_CONFIG, loaded |-> FALSE]

\* ConfigManager.load: the first candidate with a truthy document is merged
\* into self.config, then the configuration is validated
ConfigManager_load(self, files) ==
  LET explicit == IF self.config_path /\ files.explicit # Missing
                    THEN load_from_file(files.explicit) ELSE PyNone
      user == IF ~py_truthy(explicit) /\ files.user # Missing
                THEN load_from_file(files.user) ELSE explicit
      loaded_config == IF ~py_truthy(user) /\ files.default # Missing
                         THEN load_from_file(files.default) ELSE user
      merged == IF py_truthy(loaded_config)
                  THEN merge_config(self.config, loaded_config)
                  ELSE Done(self.config)
  IN  IF merged.kind = "raise"
        THEN [self |-> self, outcome |-> Raise(merged.exc)]
        ELSE LET validated == validate_config(merged.config)
             IN  [self |-> [self EXCEPT !.config = validated.config,
                                        !.loaded = TRUE],
                  outcome |-> IF validated.kind = "raise"
                                THEN Raise(validated.exc) ELSE Returned]

\* set(): the loop over parts[:-1] makes a dict of every level that is not
\* one, then config[parts[-1]] = value
RECURSIVE set_path(_, _, _)
set_path(d, parts, value) ==
  IF Len(parts) = 1 THEN dict_set(d, parts[1], value)
  ELSE LET part == Head(parts)
           child == IF part \in DOMAIN d /\ d[part].t = "dict"
                      THEN d[part].d ELSE <<>>
       IN  dict_set(d, part, PyDict(set_path(child, Tail(parts), value)))

\* ConfigManager.set
ConfigManager_set(self, files, path, value) ==
  LET before == IF self.loaded THEN [self |-> self, outcome |-> Returned]
                ELSE ConfigManager_load(self, files)
  IN  IF before.outcome.kind = "raise" THEN before
      ELSE LET validated == validate_config(set_path(before.self.config, path, value))
           IN  [self |-> [before.self EXCEPT !.config = validated.config],
                outcome |-> IF validated.kind = "raise"
                              THEN Raise(validated.exc) ELSE Returned]

\* the file content at a candidate path: Missing (os.path.exists is false),
\* Malformed (unreadable or invalid YAML) or a YAML document
YamlFile(doc) == [st |-> "yaml", doc |-> doc]

\* documents of the file named by --config: empty, not a mapping, options
\* that are valid, invalid or not numbers, and sections that are not mappings
ExplicitDocuments ==
  {PyNone,
   PyStr("text"),
   PyList(<<"bitcoin">>),
   PyDict([display |-> PyDict([default_mode |-> PyStr("quiet"),
                               refresh_rate |-> PyInt(60)])]),
   PyDict([display |-> PyDict([default_mode |-> PyStr("bogus")]),
           cache |-> PyDict([expiration |-> PyInt(0)])]),
   PyDict([cache |-> PyDict([expiration |-> PyNaN])]),
   PyDict([cache |-> PyDict([expiration |-> PyStr("45")])]),
   PyDict([cache |-> PyNone]),
   PyDict([display |-> PyStr("compact")]),
   PyDict([cryptocurrencies |-> PyList(<<>>)])}

\* the user's and the shipped configuration file
UserDocument == PyDict([display |-> PyDict([default_mode |-> PyStr("verbose")])])

DefaultDocument == PyDict([graph |-> PyDict([days |-> PyInt(30)])])

ConfigFiles ==
  [explicit : {Missing, Malformed} \cup {YamlFile(doc) : doc \in ExplicitDocuments},
   user : {Missing, Malformed, YamlFile(UserDocument)},
   default : {Missing, YamlFile(DefaultDocument)}]

\* the calls of set(): paths of one, two and three parts, and values
SetPaths ==
  {<<"display", "default_mode">>, <<"display", "refresh_rate">>,
   <<"cache", "expiration">>, <<"cryptocurrencies">>, <<"display">>,
   <<"graph", "style", "x">>}

SetValues ==
  {PyStr("quiet"), PyInt(60), PyInt(0), PyStr("45"), PyNaN, PyNone,
   PyList(<<"dogecoin">>), PyList(<<>>)}

\* ------------------------------------------------------------ main
\* the ConfigManager is followed on its own, not inside the runs of main
ManagerUnobserved ==
  /\ config_files = Unobserved
  /\ manager = Unobserved
  /\ manager_call = Idle

ProgramInit(cfgs, installs) ==
  /\ now = 0
  /\ config \in cfgs
  /\ cache_installed \in installs
  /\ http_cache = [k \in CoinLists |-> NoEntry]
  /\ fallback_file = Missing
  /\ history_fallback_file = Missing
  /\ pc = "fetch"
  /\ prices_data = None
  /\ from_cache = FALSE
  /\ history_data = None
  /\ exit_status = None
  /\ screen = None
  /\ cur_call = Idle
  /\ hist_call = Idle
  /\ saved_prices = None
  /\ saved_history = None
  /\ received = None
  /\ table_row = None

\* prices_data, from_cache = fetch_crypto_prices(); display_crypto_prices(...)
MainFetch ==
  /\ pc = "fetch"
  /\ \E net \in MarketReplies(config.cryptocurrencies), wr \in WriteOutcomes :
       LET key == config.cryptocurrencies
           got == requests_get(http_cache[key], cache_installed,
                               timedelta_seconds(config.expiration), net, now)
           r == fetch_crypto_prices(config, got, fallback_file, now, wr)
           ok == got.reply.status = "ok" /\ got.reply.json
       IN  /\ (~ok => wr = "ok")
           /\ http_cache' = [http_cache EXCEPT ![key] = got.entry]
           /\ fallback_file' = r.file
           /\ saved_prices' = IF ok THEN stored_after(saved_prices, got.reply.data, now, wr)
                               ELSE saved_prices
           /\ received' = IF ok THEN received_after(received, got.created, wr)
                           ELSE received
           /\ captured_for' =
                IF ok /\ captured_for # Unobserved
                  THEN received_after(captured_for, request_params(config), wr)
                ELSE captured_for
           /\ live_entry' =
                IF ok /\ got.network /\ live_entry # Unobserved
                  THEN LiveEntry(key, got.reply.data,
                                 now + timedelta_seconds(config.expiration))
                  ELSE live_entry
           /\ cur_call' = [op |-> "fetch_crypto_prices", at |-> now,
                           reply |-> got.reply, fetched |-> ok,
                           network |-> got.network,
                           write |-> IF ok THEN wr ELSE "none",
                           read |-> r.read, readval |-> r.readval,
                           source |-> r.source, result |-> r.result]
           /\ IF r.result.kind = "return"
                THEN /\ prices_data' = Some(r.result.data)
                     /\ from_cache' = r.result.from_cache
                     /\ screen' = Some(display_crypto_prices(r.result.data,
                                                            r.result.from_cache))
                     /\ pc' = "history"
                     /\ UNCHANGED exit_status
                ELSE /\ pc' = IF r.result.kind = "exit" THEN "exited" ELSE "crashed"
                     /\ exit_status' = Some(1)
                     /\ UNCHANGED <<prices_data, from_cache, screen>>
  /\ UNCHANGED <<now, config, cache_installed, history_fallback_file,
                 history_data, hist_call, saved_history, series, width,
                 sparkline, table_row,
                 manager_vars>>

\* if show_graphs: history_data = fetch_price_history(); prices_data and
\* from_cache are not read again before the next iteration reassigns them
MainHistory ==
  /\ pc = "history"
  /\ config.show_graphs
  /\ \E replies \in [Range(config.cryptocurrencies) -> UNION {ChartReplies(c) : c \in Range(config.cryptocurrencies)}],
        wr \in WriteOutcomes :
       LET r == fetch_price_history(config, replies, history_fallback_file, now, wr)
       IN  /\ \A c \in DOMAIN replies : replies[c] \in ChartReplies(c)
           /\ (~r.wrote => wr = "ok")
           /\ history_fallback_file' = r.file
           /\ saved_history' = IF r.wrote
                                 THEN stored_after(saved_history, r.history_data, now, wr)
                                 ELSE saved_history
           /\ hist_call' = [op |-> "fetch_price_history", at |-> now,
                            replies |-> replies,
                            write |-> IF r.wrote THEN wr ELSE "none",
                            read |-> r.read, attempted |-> r.attempted,
                            result |-> r.result]
           /\ IF r.result.kind = "return"
                THEN /\ history_data' = r.result.value
                     /\ pc' = "sleep"
                     /\ UNCHANGED exit_status
                ELSE /\ pc' = "crashed"
                     /\ exit_status' = Some(1)
                     /\ UNCHANGED history_data
  /\ prices_data' = None
  /\ from_cache' = FALSE
  /\ cur_call' = Idle
  /\ UNCHANGED <<now, config, cache_installed, http_cache, fallback_file,
                 screen, saved_prices, live_entry, received, captured_for,
                 series, width, sparkline, table_row,
                 manager_vars>>

\* show_graphs is off: no history is fetched
MainNoGraphs ==
  /\ pc = "history"
  /\ ~config.show_graphs
  /\ pc' = "sleep"
  /\ UNCHANGED <<now, config, cache_installed, http_cache, fallback_file,
                 history_fallback_file, prices_data, from_cache, history_data,
                 exit_status, screen, cur_call, hist_call, saved_prices,
                 saved_history, live_entry, received, captured_for, series,
                 width, sparkline, table_row,
                 manager_vars>>

\* time.sleep(refresh_rate), the screen is cleared and the next iteration of
\* the refresh loop starts: it reassigns prices_data, from_cache and
\* history_data before it reads them
Sleep ==
  /\ pc = "sleep"
  /\ config.refresh_rate > 0
  /\ \E d \in 0..MaxSleep :
       /\ now + d <= MaxNow
       /\ now' = now + d
  /\ pc' = "fetch"
  /\ screen' = None
  /\ prices_data' = None
  /\ from_cache' = FALSE
  /\ history_data' = None
  /\ cur_call' = Idle
  /\ hist_call' = Idle
  /\ live_entry' = aged(live_entry, now')
  /\ UNCHANGED <<config, cache_installed, http_cache, fallback_file,
                 history_fallback_file, exit_status, saved_prices,
                 saved_history, received, captured_for, series, width,
                 sparkline, table_row,
                 manager_vars>>

\* refresh is disabled: main returns after one pass
MainReturn ==
  /\ pc = "sleep"
  /\ config.refresh_rate = 0
  /\ pc' = "done"
  /\ exit_status' = Some(0)
  /\ UNCHANGED <<now, config, cache_installed, http_cache, fallback_file,
                 history_fallback_file, prices_data, from_cache, history_data,
                 screen, cur_call, hist_call, saved_prices, saved_history,
                 live_entry, received, captured_for, series, width,
                 sparkline, table_row,
                 manager_vars>>

\* the program is started again: the two fallback files and the sqlite cache
\* are what the previous run left
RestartWith(cfgs, installs) ==
  /\ pc \in {"exited", "crashed", "done"}
  /\ \E cfg \in cfgs, installed \in installs, d \in 0..MaxSleep :
       /\ now + d <= MaxNow
       /\ now' = now + d
       /\ config' = cfg
       /\ cache_installed' = installed
  /\ pc' = "fetch"
  /\ prices_data' = None
  /\ from_cache' = FALSE
  /\ history_data' = None
  /\ exit_status' = None
  /\ screen' = None
  /\ cur_call' = Idle
  /\ hist_call' = Idle
  /\ live_entry' = aged(live_entry, now')
  /\ UNCHANGED <<http_cache, fallback_file, history_fallback_file,
                 saved_prices, saved_history, received, captured_for, series,
                 width, sparkline, table_row,
                 manager_vars>>

\* runs without graphs; initialize_config() installs the cache, --config does not
Init ==
  /\ ProgramInit(PriceConfigs, BOOLEAN)
  /\ ManagerUnobserved
  /\ live_entry = NoLive
  /\ captured_for = None
  /\ series = <<>>
  /\ width = 1
  /\ sparkline = None

Restart == RestartWith(PriceConfigs, BOOLEAN)

Next ==
  \/ MainFetch
  \/ MainNoGraphs
  \/ Sleep
  \/ MainReturn
  \/ Restart

Spec == Init /\ [][Next]_vars

\* one run of the program from its start to its end, without graphs; a
\* request started is answered or times out (api.timeout), so the fetch step
\* is always taken
NextRun ==
  \/ MainFetch
  \/ MainNoGraphs
  \/ Sleep
  \/ MainReturn

SpecRun == Init /\ [][NextRun]_vars /\ WF_vars(MainFetch)

\* runs without graphs and without the cache (--config), restarted with any
\* coin list (--coins) and base currency
InitParams ==
  /\ ProgramInit(ParamConfigs, {FALSE})
  /\ ManagerUnobserved
  /\ live_entry = Unobserved
  /\ captured_for = None
  /\ series = <<>>
  /\ width = 1
  /\ sparkline = None

RestartParams == RestartWith(ParamConfigs, {FALSE})

NextParams ==
  \/ MainFetch
  \/ MainNoGraphs
  \/ Sleep
  \/ RestartParams

SpecParams == InitParams /\ [][NextParams]_vars

\* runs with graphs and a refresh loop, started with --config
InitGraphs ==
  /\ ProgramInit(GraphConfigs, {FALSE})
  /\ ManagerUnobserved
  /\ live_entry = Unobserved
  /\ captured_for = Unobserved
  /\ series = <<>>
  /\ width = 1
  /\ sparkline = None

RestartGraphs == RestartWith(GraphConfigs, {FALSE})

NextGraphs ==
  \/ MainFetch
  \/ MainHistory
  \/ Sleep
  \/ RestartGraphs

SpecGraphs == InitGraphs /\ [][NextGraphs]_vars

\* one run with graphs, from its start: first pass, then the refresh loop
NextGraphsRun ==
  \/ MainFetch
  \/ MainHistory
  \/ Sleep

SpecGraphsRun == InitGraphs /\ [][NextGraphsRun]_vars

\* ------------------------------------------------------------ sparkline alone
\* every series of up to MaxLen points with values 0..MaxVal; the timestamp
\* of a point is its position
RECURSIVE SeriesOfLen(_)
SeriesOfLen(n) ==
  IF n = 0 THEN {<<>>}
  ELSE {Append(s, <<n - 1, v>>) : s \in SeriesOfLen(n - 1), v \in 0..MaxVal}

AllSeries == UNION {SeriesOfLen(n) : n \in 0..MaxLen}

\* a four-day series in real prices, wider than the range 0..MaxVal
ExampleSeries == << <<0, 100>>, <<1, 110>>, <<2, 90>>, <<3, 95>> >>

\* the width the example series is rendered with
ExampleWidth == Len(ExampleSeries)

\* a series that rises through every level of the palette, rendered at a
\* width of one glyph per point
RampSeries == [i \in 1..Len(blocks) |-> <<i - 1, i - 1>>]

RampWidth == Len(RampSeries)

InitSparkline ==
  /\ ProgramInit({CHOOSE c \in GraphConfigs : TRUE}, {FALSE})
  /\ ManagerUnobserved
  /\ live_entry = Unobserved
  /\ captured_for = Unobserved
  /\ \/ series \in AllSeries /\ width \in 1..MaxWidth
     \/ series = ExampleSeries /\ width = ExampleWidth
     \/ series = RampSeries /\ width = RampWidth
  /\ sparkline = None

\* sparkline = create_sparkline(series, width)
Render ==
  /\ sparkline = None
  /\ sparkline' = Some(create_sparkline(series, width))
  /\ UNCHANGED <<now, config, cache_installed, http_cache, fallback_file,
                 history_fallback_file, pc, prices_data, from_cache,
                 history_data, exit_status, screen, cur_call, hist_call,
                 saved_prices, saved_history, live_entry, received,
                 captured_for, series, width, table_row,
                 manager_vars>>

\* display_price_graphs, for a coin that has a history: the change cell, then
\* the sparkline cell, then table.add_row
DisplayPriceGraphs ==
  /\ table_row = None
  /\ \E change_24h \in Changes :
       LET change == change_text(change_24h)
       IN  table_row' = IF change.kind = "raise" THEN change
                        ELSE [kind |-> "row", change |-> change,
                              sparkline |-> sparkline_text(series, width)]
  /\ UNCHANGED <<now, config, cache_installed, http_cache, fallback_file,
                 history_fallback_file, pc, prices_data, from_cache,
                 history_data, exit_status, screen, cur_call, hist_call,
                 saved_prices, saved_history, live_entry, received,
                 captured_for, series, width, sparkline, manager_vars>>

NextSparkline ==
  \/ Render
  \/ DisplayPriceGraphs

SpecSparkline == InitSparkline /\ [][NextSparkline]_vars

\* ------------------------------------------------------------ ConfigManager alone
\* a manager made with or without a path, before its first call; without a
\* path the file of --config plays no part
InitConfig ==
  /\ ProgramInit({CHOOSE c \in GraphConfigs : TRUE}, {FALSE})
  /\ live_entry = Unobserved
  /\ captured_for = Unobserved
  /\ series = <<>>
  /\ width = 1
  /\ sparkline = None
  /\ config_files \in ConfigFiles
  /\ \E config_path \in BOOLEAN :
       /\ ~config_path => config_files.explicit = Missing
       /\ manager = ConfigManager(config_path)
  /\ manager_call = [op |-> "new", outcome |-> Returned, sets |-> 0]

\* manager.load(); an exception ends the use of the manager
ManagerLoad ==
  /\ manager_call.outcome.kind = "return"
  /\ LET r == ConfigManager_load(manager, config_files)
     IN  /\ manager' = r.self
         /\ manager_call' = [op |-> "load", outcome |-> r.outcome,
                             sets |-> manager_call.sets]
  /\ UNCHANGED <<config_files, program_vars>>

\* manager.set(path, value)
ManagerSet ==
  /\ manager_call.outcome.kind = "return"
  /\ manager_call.sets < MaxSets
  /\ \E path \in SetPaths, value \in SetValues :
       LET r == ConfigManager_set(manager, config_files, path, value)
       IN  /\ manager' = r.self
           /\ manager_call' = [op |-> "set", outcome |-> r.outcome,
                               sets |-> manager_call.sets + 1]
  /\ UNCHANGED <<config_files, program_vars>>

NextConfig ==
  \/ ManagerLoad
  \/ ManagerSet

SpecConfig == InitConfig /\ [][NextConfig]_vars

\* ============================================================ claims
\* a fetch_crypto_prices call has just returned or exited
CurCalled == cur_call.op = "fetch_crypto_prices"

\* ... and its live request failed
CurFailed == CurCalled /\ ~cur_call.fetched

\* the current-price record was stored less than a day before the call
PricesRecordValid ==
  saved_prices # None /\ cur_call.at - saved_prices.val.at < TicksPerDay

\* a fetch_price_history call has just returned or raised
HistCalled == hist_call.op = "fetch_price_history"

\* the history record was stored less than a day before the call
HistoryRecordValid ==
  saved_history # None /\ hist_call.at - saved_history.val.at < TicksPerDay

\* a 200 reply with a JSON body that has the 'prices' key
GoodChart(r) == r.status = "ok" /\ r.json /\ r.data.has_prices

\* the coins whose request failed in the last fetch_price_history call
FailedCoins == {c \in DOMAIN hist_call.replies : ~GoodChart(hist_call.replies[c])}

\* C1 (as claimed): when the live request fails, use_fallback is on and the
\* current-price record is less than a day old, fetch_crypto_prices returns
\* the record's payload, whatever the payload is, and does not exit.
C1_FallbackServedWhenValid ==
  (CurFailed /\ config.use_fallback /\ PricesRecordValid)
    => /\ cur_call.result.kind = "return"
       /\ cur_call.result.data = saved_prices.val.data

\* C2 (as claimed): the reported origin tells live, cache and fallback apart:
\* a result read from the fallback record is not reported like a live one
\* and the table title carries a fallback annotation.
C2_OriginDistinguishesSources ==
  (CurCalled /\ cur_call.result.kind = "return")
    => /\ cur_call.source = "live"
            => ~cur_call.result.from_cache /\ screen.val.cache_status = ""
       /\ cur_call.source = "cache"
            => cur_call.result.from_cache /\ screen.val.cache_status = " (cached)"
       /\ cur_call.source = "fallback"
            => /\ <<cur_call.result.from_cache, screen.val.cache_status>> # <<FALSE, "">>
               /\ screen.val.cache_status = " (fallback)"

\* C3: when the live request fails and use_fallback is off or no valid record
\* exists, the process exits with status 1, no snapshot is returned and no
\* table is printed; with use_fallback off the fallback file is not read.
C3_TerminalFailure ==
  (CurFailed /\ (~config.use_fallback \/ ~PricesRecordValid))
    => /\ cur_call.result = Exit(1)
       /\ pc = "exited"
       /\ exit_status = Some(1)
       /\ prices_data = None
       /\ screen = None
       /\ ~config.use_fallback => ~cur_call.read

\* C3 witness: use_fallback is off, a valid non-empty record exists, the
\* live request failed and the process exited.
C3_Witness ==
  /\ CurFailed
  /\ ~config.use_fallback
  /\ PricesRecordValid
  /\ saved_prices.val.data # <<>>
  /\ pc = "exited"

\* C4 (as claimed): with two or more coins of which exactly one fails
\* (transport error, non-2xx, unparsable body or a body without 'prices'),
\* every coin is attempted and the returned mapping holds exactly the other
\* coins, each with its own series.
C4_HistoryNeverAborts ==
  (HistCalled /\ Len(config.cryptocurrencies) >= 2 /\ Cardinality(FailedCoins) = 1)
    => /\ hist_call.attempted = config.cryptocurrencies
       /\ hist_call.result.kind = "return"
       /\ hist_call.result.value =
            Some([c \in DOMAIN hist_call.replies \ FailedCoins |->
                    hist_call.replies[c].data.prices])

\* C5 (as claimed): when every coin fails, fetch_price_history returns the
\* valid history record's payload if use_fallback is on and such a record
\* exists, and otherwise nothing (an empty mapping); it never exits or raises.
C5_HistoryNeverTerminal ==
  (HistCalled /\ FailedCoins = DOMAIN hist_call.replies)
    => /\ hist_call.result.kind = "return"
       /\ IF config.use_fallback /\ HistoryRecordValid
            THEN hist_call.result.value = Some(saved_history.val.data)
            ELSE ~Truthy(hist_call.result.value)

\* C6: for both kinds, a read of a stored record returns None when the record
\* is a day old or older (exactly one day included) and its payload when it
\* is younger.
C6_StaleRecordAbsent ==
  /\ (CurCalled /\ cur_call.read /\ saved_prices # None)
       => cur_call.readval =
            IF cur_call.at - saved_prices.val.at >= TicksPerDay
              THEN None ELSE Some(saved_prices.val.data)
  /\ (HistCalled /\ hist_call.read /\ saved_history # None)
       => hist_call.result.value =
            IF hist_call.at - saved_history.val.at >= TicksPerDay
              THEN None ELSE Some(saved_history.val.data)

\* C6 witness: a current-price record of exactly one day was read and found
\* absent.
C6_Witness ==
  /\ CurCalled
  /\ cur_call.read
  /\ saved_prices # None
  /\ saved_prices.val.data # <<>>
  /\ cur_call.at - saved_prices.val.at = TicksPerDay
  /\ cur_call.readval = None

\* C7: the store never raises: no fetch_crypto_prices call ends in an
\* exception, a fetch whose live request succeeded returns the live snapshot
\* when the write fails, and a read of a missing or malformed file is None.
C7_StoreNeverRaises ==
  /\ CurCalled => cur_call.result.kind # "raise"
  /\ (CurCalled /\ cur_call.fetched /\ cur_call.write # "ok")
       => /\ cur_call.result.kind = "return"
          /\ cur_call.result.data = cur_call.reply.data
          /\ prices_data = Some(cur_call.reply.data)
  /\ (CurCalled /\ cur_call.read /\ fallback_file.st \in {"missing", "malformed"})
       => cur_call.readval = None /\ cur_call.result = Exit(1)

\* C7 witness: the live request succeeded, the write failed half way and the
\* live snapshot was returned.
C7_Witness ==
  /\ CurCalled
  /\ cur_call.fetched
  /\ cur_call.write = "dump_fails"
  /\ cur_call.result.kind = "return"
  /\ cur_call.result.data # <<>>
  /\ fallback_file = Malformed

\* C8: a record changes only in a fetch of its kind that succeeded: the
\* current-price file only in a fetch_crypto_prices whose request succeeded,
\* the history file only in a fetch_price_history with a coin that succeeded.
C8_RecordFrame ==
  [][/\ fallback_file' # fallback_file
          => pc = "fetch" /\ cur_call'.op = "fetch_crypto_prices" /\ cur_call'.fetched
     /\ history_fallback_file' # history_fallback_file
          => /\ pc = "history"
             /\ hist_call'.op = "fetch_price_history"
             /\ \E c \in DOMAIN hist_call'.replies : GoodChart(hist_call'.replies[c])
    ]_vars

\* C8 witness: every coin of a fetch_price_history failed while a history
\* record and a current-price record exist.
C8_Witness ==
  /\ HistCalled
  /\ FailedCoins = DOMAIN hist_call.replies
  /\ hist_call.result.kind = "return"
  /\ history_fallback_file.st = "json"
  /\ fallback_file.st = "json"

Rendered == sparkline # None

\* the raw values of the series, in order
SeriesValues == [i \in 1..Len(series) |-> series[i][2]]

\* fewer than 2 points, or all values equal
FlatInput ==
  Len(series) < 2 \/ \A i, j \in 1..Len(series) : series[i][2] = series[j][2]

\* the reference policy: step, number of samples kept, and the raw value
\* behind glyph i (counted from 1)
RefStep == Max(1, Len(series) \div width)

RefCount ==
  LET strided == (Len(series) + RefStep - 1) \div RefStep
  IN  IF strided < width THEN strided ELSE width

RefSample(i) ==
  IF i <= RefCount THEN SeriesValues[(i - 1) * RefStep + 1]
  ELSE SeriesValues[(RefCount - 1) * RefStep + 1]

\* floor(((v - min) / (max - min)) * 7), as the k with k <= x < k + 1
FloorBucket(v) ==
  LET mn == SeqMin(SeriesValues)
      range == SeqMax(SeriesValues) - mn
  IN  CHOOSE k \in 0..Levels :
        k * range <= (v - mn) * Levels /\ (v - mn) * Levels < (k + 1) * range

\* the position of a glyph in the palette, 0 for the lowest
GlyphIndex(g) == CHOOSE k \in 0..(Len(blocks) - 1) : blocks[k + 1] = g

\* C11: a series with fewer than 2 points, or with all values equal, is
\* rendered as width copies of the flat-line glyph without colour.
C11_FlatLine ==
  (Rendered /\ FlatInput)
    => /\ sparkline.val.glyphs = [i \in 1..width |-> FlatGlyph]
       /\ sparkline.val.color = "none"

\* C11 witness: a constant series of two or more points rendered at a width
\* of two or more.
C11_Witness ==
  /\ Rendered
  /\ Len(series) >= 2
  /\ FlatInput
  /\ width >= 2
  /\ sparkline.val.glyphs[width] = FlatGlyph

\* C12: for a non-constant series the colour is green iff the last raw value
\* is above the first, red iff it is below, none iff they are equal;
\* whatever lies between them and whatever the sampling keeps.
C12_TrendStyle ==
  (Rendered /\ ~FlatInput)
    => LET first == SeriesValues[1]
           last == SeriesValues[Len(series)]
       IN  /\ sparkline.val.color = "green" <=> last > first
           /\ sparkline.val.color = "red" <=> last < first
           /\ sparkline.val.color = "none" <=> last = first

\* C12 witness: a non-constant series that ends where it began and falls on
\* its last step, longer than the width, so that the last point is not sampled.
C12_Witness ==
  /\ Rendered
  /\ ~FlatInput
  /\ Len(series) > width
  /\ width >= 2
  /\ SeriesValues[Len(series)] = SeriesValues[1]
  /\ SeriesValues[Len(series)] < SeriesValues[Len(series) - 1]
  /\ sparkline.val.color = "none"

C14_Downsampling ==
  (Rendered /\ ~FlatInput)
    => sparkline.val.glyphs =
         [i \in 1..width |-> blocks[FloorBucket(RefSample(i)) + 1]]

\* C14 witness: a step of two or more, with a second raw value that differs
\* from the second sample.
C14_Witness ==
  /\ Rendered
  /\ ~FlatInput
  /\ width >= 2
  /\ RefStep >= 2
  /\ SeriesValues[2] # RefSample(2)
  /\ sparkline.val.glyphs[2] # blocks[FloorBucket(SeriesValues[2]) + 1]

\* C15 (as claimed): the series 100, 110, 90, 95 at width 4 gives four glyphs
\* with buckets 4, 7, 0, 1 and the colour of a falling trend.
C15_ExampleBuckets ==
  (Rendered /\ series = ExampleSeries /\ width = ExampleWidth)
    => /\ sparkline.val.glyphs = <<blocks[5], blocks[8], blocks[1], blocks[2]>>
       /\ sparkline.val.color = "red"

\* ------------------------------------------------- cache and loop claims
\* C16 (as claimed): while the snapshot of the last live fetch is within its
\* TTL, a fetch for the same coin list is answered from the cache with that
\* snapshot and without a network request; otherwise it is not answered
\* from the cache; however the configuration was loaded.
C16_TransientCacheValidity ==
  [][(pc = "fetch" /\ cur_call'.op = "fetch_crypto_prices")
       => IF /\ live_entry.st = "fresh"
             /\ live_entry.key = config.cryptocurrencies
             /\ now < live_entry.expires
            THEN /\ ~cur_call'.network
                 /\ cur_call'.source = "cache"
                 /\ cur_call'.result = Return(live_entry.data, TRUE)
            ELSE cur_call'.source # "cache"
    ]_vars

\* C17 (as claimed): in a run whose configuration file sets cache.expiration
\* to 0, every fetch that obtains a snapshot obtains it from the network and
\* none is reported as cached.
C17_ZeroTtlDisablesCache ==
  (CurCalled /\ config.file_expiration = 0)
    => /\ cur_call.fetched => cur_call.network
       /\ cur_call.source # "cache"
       /\ cur_call.result.kind = "return" => ~cur_call.result.from_cache

\* C18 (as claimed): the refresh loop ends only through the terminal failure
\* of fetch_crypto_prices: a process that has ended after an earlier pass
\* had stored a history ended in the sys.exit(1) of a failed current-price
\* fetch.
C18_LoopSurvives ==
  (exit_status # None /\ history_fallback_file # Missing)
    => /\ pc = "exited"
       /\ CurCalled
       /\ cur_call.result = Exit(1)

\* the three outcomes of a current-price request
Succeeded ==
  /\ CurCalled
  /\ cur_call.fetched
  /\ cur_call.result.kind = "return"
  /\ cur_call.source \in {"live", "cache"}

FailedWithFallback ==
  /\ CurCalled
  /\ ~cur_call.fetched
  /\ cur_call.result.kind = "return"
  /\ cur_call.source = "fallback"

FailedTerminal ==
  /\ CurCalled
  /\ ~cur_call.fetched
  /\ cur_call.result = Exit(1)
  /\ pc = "exited"

\* C19: a current-price request ends in exactly one of Succeeded,
\* FailedWithFallback and FailedTerminal; a table is on the screen only after
\* Succeeded or FailedWithFallback; a request about to be made is made; and
\* after FailedTerminal the process stays ended, without table or new fetch.
C19_RequestLifecycle ==
  /\ [](CurCalled =>
          /\ Succeeded \/ FailedWithFallback \/ FailedTerminal
          /\ ~(Succeeded /\ FailedWithFallback)
          /\ ~(Succeeded /\ FailedTerminal)
          /\ ~(FailedWithFallback /\ FailedTerminal))
  /\ [](screen # None => Succeeded \/ FailedWithFallback)
  /\ (pc = "fetch" ~> pc # "fetch")
  /\ [](FailedTerminal => [](FailedTerminal /\ screen = None /\ exit_status = Some(1)))

\* C19 witness: in the refresh loop, after an earlier table, a request failed
\* terminally.
C19_Witness ==
  /\ FailedTerminal
  /\ saved_prices # None
  /\ screen = None
  /\ exit_status = Some(1)

\* C20 (as claimed): a snapshot served from the fallback record left the API
\* less than a day before it is returned.
C20_FallbackNeverOlderThanADay ==
  (CurCalled /\ cur_call.source = "fallback")
    => cur_call.at - received.val < TicksPerDay

\* ------------------------------------------------- record and display claims
\* the coins whose request succeeded in the last fetch_price_history call,
\* and the series fetched for them
SucceededCoins == DOMAIN hist_call.replies \ FailedCoins

FetchedSeries == [c \in SucceededCoins |-> hist_call.replies[c].data.prices]

\* C21 (as claimed): after a fetch_price_history in which the request of at
\* least one coin succeeded and whose write did not fail, the call returns exactly the
\* series fetched in this call and the history record holds exactly that
\* mapping, stamped with the time of the call: a coin that failed is in
\* neither, whatever the previous record held.
C21_HistoryRecordIsReturnedMapping ==
  (/\ HistCalled
   /\ SucceededCoins \cap Range(hist_call.attempted) # {}
   /\ hist_call.write \notin {"open_fails", "dump_fails"})
    => /\ hist_call.result = HReturn(Some(FetchedSeries))
       /\ history_fallback_file.st = "json"
       /\ json_load_dict(history_fallback_file.data) = FetchedSeries
       /\ fromisoformat(history_fallback_file.timestamp) = hist_call.at

\* C22 (as claimed): a snapshot served from the fallback record was captured
\* for the parameters of the failing request: every coin in it is in the
\* configured coin list and its prices were asked for in the configured
\* currency, whatever the configuration was when the record was written.
C22_FallbackMatchesRequest ==
  (CurCalled /\ cur_call.source = "fallback")
    => /\ \A i \in 1..Len(cur_call.result.data) :
            cur_call.result.data[i].id \in Range(config.cryptocurrencies)
       /\ captured_for.val.vs_currency = config.currency

\* C23 (as claimed): for a non-constant series with more points than width,
\* the last glyph is the glyph of a raw value from the final step-sized
\* window of the series, i.e. of one of the last step values.
C23_LastGlyphFromFinalWindow ==
  (Rendered /\ ~FlatInput /\ Len(series) > width)
    => \E j \in (Len(series) - RefStep + 1)..Len(series) :
         sparkline.val.glyphs[width] = blocks[FloorBucket(SeriesValues[j]) + 1]

\* display_price_graphs has added the row of the coin to its table
RowAdded == table_row # None /\ table_row.kind = "row"

\* C24 (as claimed): for a non-constant series of at least 2 points, the
\* style of the sparkline cell in the graph table is green when the last raw
\* value exceeds the first, red when it is lower and none when they are equal.
C24_CellStyleAgreesWithTrend ==
  (RowAdded /\ ~FlatInput)
    => table_row.sparkline.style =
         IF SeriesValues[Len(series)] > SeriesValues[1] THEN "green"
         ELSE IF SeriesValues[Len(series)] < SeriesValues[1] THEN "red"
         ELSE "none"

\* ------------------------------------------------------ configuration claims
\* the sections of DEFAULT_CONFIG that hold options
OptionSections == {s \in DOMAIN DEFAULT_CONFIG : DEFAULT_CONFIG[s].t = "dict"}

\* the configuration has every section and every option of DEFAULT_CONFIG
Complete(cfg) ==
  /\ DOMAIN DEFAULT_CONFIG \subseteq DOMAIN cfg
  /\ \A s \in OptionSections :
       /\ cfg[s].t = "dict"
       /\ DOMAIN DEFAULT_CONFIG[s].d \subseteq DOMAIN cfg[s].d

\* the candidate files in the order explicit path, user, default, and the
\* document of the first one that loads as a mapping with content
Candidates ==
  <<IF manager.config_path THEN config_files.explicit ELSE Missing,
    config_files.user, config_files.default>>

Loadable(file) == file.st = "yaml" /\ file.doc.t = "dict" /\ DOMAIN file.doc.d # {}

FirstLoadable ==
  IF \E i \in 1..Len(Candidates) : Loadable(Candidates[i])
    THEN Candidates[CHOOSE i \in 1..Len(Candidates) :
                      /\ Loadable(Candidates[i])
                      /\ \A j \in 1..(i - 1) : ~Loadable(Candidates[j])].doc.d
    ELSE <<>>

\* the first call on the manager was load()
FirstLoad == manager_call.op = "load" /\ manager_call.sets = 0

\* C25 (as claimed): load() never raises and leaves a complete
\* configuration, whatever the candidate files hold: each option has the
\* value the first loadable file gives it or its default, and its default
\* when that file does not set it.
C25_LoadTotalAndComplete ==
  FirstLoad
    => /\ manager_call.outcome = Returned
       /\ manager.loaded
       /\ Complete(manager.config)
       /\ \A s \in OptionSections : \A o \in DOMAIN DEFAULT_CONFIG[s].d :
            IF s \in DOMAIN FirstLoadable /\ FirstLoadable[s].t = "dict"
               /\ o \in DOMAIN FirstLoadable[s].d
              THEN manager.config[s].d[o] \in
                     {FirstLoadable[s].d[o], DEFAULT_CONFIG[s].d[o]}
              ELSE manager.config[s].d[o] = DEFAULT_CONFIG[s].d[o]

\* the value is a number (True and False count as 1 and 0) within the range
InRange(value, min_val, max_val) ==
  \/ value.t = "int" /\ min_val <= value.n /\ value.n <= max_val
  \/ value.t = "bool" /\ min_val <= (IF value.b THEN 1 ELSE 0)
       /\ (IF value.b THEN 1 ELSE 0) <= max_val

HasOption(cfg, s, o) == s \in DOMAIN cfg /\ cfg[s].t = "dict" /\ o \in DOMAIN cfg[s].d

\* C26 (as claimed): after every load() and set() that returned, every option
\* of VALIDATION_SCHEMA holds one of its allowed values, every range-checked
\* option holds a number within its range, and cryptocurrencies is a
\* non-empty list.
C26_ConfigAlwaysValid ==
  (manager_call.op \in {"load", "set"} /\ manager_call.outcome = Returned)
    => /\ \A i \in 1..Len(VALIDATION_SCHEMA) :
            LET check == VALIDATION_SCHEMA[i]
            IN  /\ HasOption(manager.config, check[1], check[2])
                /\ \E v \in check[3] : py_eq(manager.config[check[1]].d[check[2]], v)
       /\ \A i \in 1..Len(NumericRanges) :
            LET check == NumericRanges[i]
            IN  /\ HasOption(manager.config, check[1], check[2])
                /\ InRange(manager.config[check[1]].d[check[2]], check[3], check[4])
       /\ manager.config.cryptocurrencies.t = "list"
       /\ manager.config.cryptocurrencies.l # <<>>
====
